---- MODULE Spec2Model ----
(***************************************************************************)
(* Voting, score recomputation and ranking cache of the paper backend.     *)
(*                                                                         *)
(* One paper with its unified document, the Vote table, the ranking cache  *)
(* and the paper-detail cache are shared state.  Every HTTP request runs   *)
(* on a handler of its own (Reqs) and is split into one step per database  *)
(* or cache access, so that requests interleave as they do under           *)
(* autocommit.  The deferred recompute job is a step of its own.  The Vote *)
(* the views write and the vote model the post_save receivers listen to    *)
(* are taken as one model: saving a vote runs both receivers.              *)
(***************************************************************************)
EXTENDS Integers, Sequences, FiniteSets, TLC

\* ---------------------------------------------------------------- bounds
MaxOps == 2          \* requests served in one behaviour
MaxNow == 1          \* clock readings 0..MaxNow (hours since upload)
MaxJobs == 2         \* deferred recompute jobs waiting or about to be dispatched
MaxPapers == 2       \* papers in the collection the query builder ranks
MaxHotVotes == 3     \* votes on the document whose hot score is followed over time
MaxFlags == 2        \* rows of the moderation Flag table

Users == {"u1", "u2"}
Reqs == {"r1", "r2"}
LowerReqs(r) == IF r = "r2" THEN {"r1"} ELSE {}
Hubs == {1, 2}

UPVOTE == "UPVOTE"
DOWNVOTE == "DOWNVOTE"
VoteTypes == {UPVOTE, DOWNVOTE}

\* ------------------------------------------------------------------ state
VARIABLES
    votes,            \* the Vote table: records [id, created_by, vote_type]
    doc,              \* the stored unified document: [score, hot_score]
    discussion_count, \* the paper's discussion_count
    now,              \* the clock, in hours since the paper was uploaded
    jobs,             \* recalc_hot_score_task jobs waiting in the queue
    rankCache,        \* keys present in the ranking cache: <<hub_id, ordering, bucket>>
    paperCache,       \* whether the paper-detail cache entry is present
    paperHubs,        \* paper.hubs
    req,              \* per handler: position and locals of the request it serves
    last,             \* the response sent last, with what its request did
    nops,             \* requests started so far
    papers,           \* the paper collection the query builder ranks: id -> row
    ranked,           \* the read the query builder answered last, and its result
    paperFlags,       \* the paper's Flag table: records [id, created_by]
    content,          \* flaggable items: id -> [kind, is_removed, uni_removed]
    auditFlags,       \* the moderation Flag table: records [id, item, verdict, stamped]
    paper,            \* the paper's row: [is_public, unified_document (whether it has one)]
    cached            \* the data the paper-detail cache entry holds while it is present

vars == <<votes, doc, discussion_count, now, jobs, rankCache, paperCache,
          paperHubs, req, last, nops, papers, ranked, paperFlags,
          content, auditFlags, paper, cached>>

\* What only the ranking query builder reads and writes.
rankVars == <<papers, ranked>>

\* What the voting and ranking-cache handlers leave alone.
otherVars == <<rankVars, paperFlags, content, auditFlags, paper, cached>>

\* What the moderation handlers read and write.
auditVars == <<content, auditFlags>>

\* What only the paper-detail endpoint writes.
detailVars == <<paper, cached>>

\* -------------------------------------------------------- score calculator
\* hot-score constants (tuning parameters)
DiscussionWeight == 2
Gravity == 2

RECURSIVE Pow(_, _)
Pow(b, e) == IF e = 0 THEN 1 ELSE b * Pow(b, e - 1)

RECURSIVE HotScaleUpTo(_)
HotScaleUpTo(a) == IF a < 0 THEN 1 ELSE Pow(a + 2, Gravity) * HotScaleUpTo(a - 1)

\* Hot scores are kept as integers: the common multiple of all divisors that
\* occur for ages 0..MaxNow makes every division below exact.
HotScale == HotScaleUpTo(MaxNow)

Upvotes(V) == Cardinality({v \in V : v.vote_type = UPVOTE})
Downvotes(V) == Cardinality({v \in V : v.vote_type = DOWNVOTE})

calculate_score(V) == Upvotes(V) - Downvotes(V)

\* A hot score that grows with the age of the document.
calculate_hot_score_growing_with_age(V, disc, t) ==
    (calculate_score(V) + disc * DiscussionWeight) * HotScale * Pow(t + 2, Gravity)

calculate_hot_score(V, disc, t) ==
    ((calculate_score(V) + disc * DiscussionWeight) * HotScale)
        \div Pow(t + 2, Gravity)

\* ---------------------------------------------------------- request record
NoQuery == [page |-> 0, hub_id |-> 0, ordering |-> "none",
            start_date |-> 0, end_date |-> 0]

\* No exception was answered.
NoError ==
    [kind |-> "none", has_detail |-> FALSE, column |-> "none",
     value_has_url |-> FALSE, value_has_doi |-> FALSE]

\* What a retrieve holds of the paper: the row it loaded and the hubs it
\* prefetched with it.
NoInstance ==
    [is_public |-> FALSE, is_removed |-> FALSE, unified_document |-> FALSE, hubs |-> {}]

\* What the serializer makes of an instance, as far as it is followed here.
NoData == [is_public |-> FALSE, hubs |-> {}]

IdleReq ==
    [pc |-> "idle", op |-> "none", user |-> "none", vote_type |-> "none",
     vote_id |-> 0, flag_id |-> 0, created |-> FALSE,
     uni |-> [score |-> 0, hot_score |-> 0], score |-> 0, hot_score |-> 0,
     saves |-> 0, dispatched |-> FALSE, logged |-> FALSE, raised |-> FALSE, contributed |-> FALSE,
     has_hubs |-> FALSE, hub_ids |-> {},
     query |-> NoQuery, cache_pk |-> "none", probed |-> FALSE,
     populated |-> FALSE, built |-> FALSE, dropped |-> FALSE,
     error |-> "none", cause |-> NoError,
     todo |-> <<>>, done |-> <<>>, removes |-> FALSE, body |-> "none",
     make_public |-> FALSE, sees_all |-> FALSE, cache_hit |-> FALSE,
     instance |-> NoInstance,
     status |-> 0]

\* The request goes on: nothing is answered yet.
Set(r, rec) == req' = [req EXCEPT ![r] = rec] /\ UNCHANGED last

\* The response is sent: the handler is free again, and what the request
\* answered and did is kept as the last response.
Response(rec, status) ==
    [op |-> rec.op, status |-> status, created |-> rec.created,
     saves |-> rec.saves, logged |-> rec.logged, raised |-> rec.raised,
     contributed |-> rec.contributed, page |-> rec.query.page,
     probed |-> rec.probed, populated |-> rec.populated, built |-> rec.built,
     dropped |-> rec.dropped, error |-> rec.error,
     cause |-> rec.cause, removes |-> rec.removes, body |-> rec.body,
     make_public |-> rec.make_public, cache_hit |-> rec.cache_hit]

Respond(r, rec, status) ==
    /\ req' = [req EXCEPT ![r] = IdleReq]
    /\ last' = Response(rec, status)

Free(r) == req[r].pc = "idle"

\* ------------------------------------------------------------------- Init
PipelineInit ==
    /\ votes = {}
    /\ doc = [score |-> 0, hot_score |-> 0]
    /\ discussion_count = 1
    /\ now = 0
    /\ jobs = 0
    /\ rankCache = {}
    /\ paperCache = FALSE
    /\ paperHubs = {1}
    /\ req = [r \in Reqs |-> IdleReq]
    /\ last = Response(IdleReq, 0)
    /\ nops = 0

\* No read has gone to the query builder.
NoRanking == [ordering |-> "no read", start_date |-> 0, end_date |-> 0, result |-> <<>>]

\* The items a moderation flag can point at: a comment, a paper and a post, the
\* two documents each with a unified document.
ItemIds == {"comment", "paper", "post"}

Published ==
    [i \in ItemIds |-> [kind |-> i, is_removed |-> FALSE, uni_removed |-> FALSE]]

\* No item is removed and nothing is flagged for moderation.
AuditIdle ==
    /\ content = Published
    /\ auditFlags = {}

\* The paper is public and has a unified document; its detail entry is absent.
DetailIdle ==
    /\ paper = [is_public |-> TRUE, unified_document |-> TRUE]
    /\ cached = NoData

\* Nothing beside the voting pipeline has happened.
OtherInit ==
    /\ paperFlags = {}
    /\ AuditIdle
    /\ DetailIdle

Init ==
    /\ PipelineInit
    /\ papers = <<>>
    /\ ranked = NoRanking
    /\ OtherInit

\* A request arrives at a free handler; the lowest free handler takes it.
Arrive(r) ==
    /\ Free(r)
    /\ \A q \in LowerReqs(r) : ~Free(q)
    /\ nops < MaxOps
    /\ nops' = nops + 1

\* ------------------------------------------------- upvote / downvote
\* find_vote(user, paper, vote_type): a vote of this type by this user exists.
find_vote(u, t) == \E v \in votes : v.created_by = u /\ v.vote_type = t

\* Handlers that will still enqueue a deferred job.
BeforeDispatch ==
    {r \in Reqs : req[r].pc \in {"retrieve_vote", "save_vote", "create_vote"}}

\* upvote / downvote without the vote_exists test.
StartVote_without_vote_exists(r, u, t) ==
    /\ Arrive(r)
    /\ jobs + Cardinality(BeforeDispatch) < MaxJobs
    /\ Set(r, [IdleReq EXCEPT !.op = IF t = UPVOTE THEN "upvote" ELSE "downvote",
                              !.user = u, !.vote_type = t, !.pc = "retrieve_vote"])
    /\ UNCHANGED <<votes, doc, discussion_count, now, jobs,
                   rankCache, paperCache, paperHubs>>
    /\ UNCHANGED otherVars

\* PaperViewSet.upvote / downvote up to the vote_exists test: get_object() finds
\* the paper, and a vote of the requested type answers 400.
StartVote(r, u, t) ==
    /\ Arrive(r)
    /\ jobs + Cardinality(BeforeDispatch) < MaxJobs
    /\ LET rec == [IdleReq EXCEPT !.op = IF t = UPVOTE THEN "upvote" ELSE "downvote",
                                  !.user = u, !.vote_type = t] IN
       IF find_vote(u, t)
       THEN Respond(r, rec, 400)
       ELSE Set(r, [rec EXCEPT !.pc = "retrieve_vote"])
    /\ UNCHANGED <<votes, doc, discussion_count, now, jobs,
                   rankCache, paperCache, paperHubs>>
    /\ UNCHANGED otherVars

\* retrieve_vote(user, paper): Vote.objects.get(paper=paper, created_by=user)
VotesBy(u) == {v \in votes : v.created_by = u}

\* update_or_create_vote, its read: DoesNotExist gives None (create path), one
\* record gives the update path, several make get() raise MultipleObjectsReturned,
\* which nothing catches.
RetrieveVote(r) ==
    /\ req[r].pc = "retrieve_vote"
    /\ LET found == VotesBy(req[r].user) IN
       IF found = {}
       THEN Set(r, [req[r] EXCEPT !.pc = "create_vote"])
       ELSE IF Cardinality(found) = 1
       THEN Set(r, [req[r] EXCEPT !.pc = "save_vote",
                                  !.vote_id = (CHOOSE v \in found : TRUE).id])
       ELSE Respond(r, req[r], 500)
    /\ UNCHANGED <<votes, doc, discussion_count, now, jobs,
                   rankCache, paperCache, paperHubs, nops>>
    /\ UNCHANGED otherVars

\* What a call that can fail does: it returns, or it raises (a broker, database
\* or calculation failure).
Outcomes == {"ok", "raise"}

\* post_save receiver recalc_hot_score, run by save() right after the row is
\* written: apply_async enqueues the deferred job, or raises and the exception
\* is caught, printed and logged.
recalc_hot_score(r, rec, outcome) ==
    IF outcome = "ok"
    THEN /\ jobs' = jobs + 1
         /\ Set(r, [rec EXCEPT !.dispatched = TRUE])
    ELSE /\ UNCHANGED jobs
         /\ Set(r, [rec EXCEPT !.logged = TRUE])

\* vote.save() with the job enqueued by a pre_save receiver: the job is dispatched
\* and the row is not yet written.
SaveVote_pre_save(r, outcome) ==
    /\ req[r].pc = "save_vote"
    /\ recalc_hot_score(r, [req[r] EXCEPT !.pc = "sync_load"], outcome)
    /\ UNCHANGED <<votes, doc, discussion_count, now, rankCache,
                   paperCache, paperHubs, nops>>
    /\ UNCHANGED otherVars

\* vote.vote_type = vote_type; vote.save(): UPDATE by primary key, INSERT with the
\* same key when the row is gone.
SaveVote(r, outcome) ==
    /\ req[r].pc = "save_vote"
    /\ votes' = {v \in votes : v.id # req[r].vote_id}
                  \cup {[id |-> req[r].vote_id, created_by |-> req[r].user,
                         vote_type |-> req[r].vote_type]}
    /\ recalc_hot_score(r, [req[r] EXCEPT !.pc = "sync_load"], outcome)
    /\ UNCHANGED <<doc, discussion_count, now, rankCache,
                   paperCache, paperHubs, nops>>
    /\ UNCHANGED otherVars

\* The primary key the database gives a new row: one no row has and no handler
\* still holds (keys are never reused; only their identity matters).
FreshId ==
    LET used == {v.id : v \in votes} \cup {req[r].vote_id : r \in Reqs}
    IN CHOOSE i \in 1..(Cardinality(used) + 1) :
           i \notin used /\ \A j \in 1..(i - 1) : j \in used

\* create_vote: Vote.objects.create(created_by=user, paper=paper, vote_type=vote_type)
create_vote(u, t) ==
    votes \cup {[id |-> FreshId, created_by |-> u, vote_type |-> t]}

\* Vote.objects.create with no post_save receiver connected: the row is written
\* and the view goes on to its invalidations.
CreateVote_without_receivers(r, outcome) ==
    /\ req[r].pc = "create_vote"
    /\ votes' = create_vote(req[r].user, req[r].vote_type)
    /\ Set(r, [req[r] EXCEPT !.pc = "invalidate", !.vote_id = FreshId,
                             !.created = TRUE])
    /\ UNCHANGED <<doc, discussion_count, now, jobs, rankCache,
                   paperCache, paperHubs, nops>>
    /\ UNCHANGED otherVars

CreateVote(r, outcome) ==
    /\ req[r].pc = "create_vote"
    /\ votes' = create_vote(req[r].user, req[r].vote_type)
    /\ recalc_hot_score(r, [req[r] EXCEPT !.pc = "sync_load", !.vote_id = FreshId,
                                          !.created = TRUE], outcome)
    /\ UNCHANGED <<doc, discussion_count, now, rankCache,
                   paperCache, paperHubs, nops>>
    /\ UNCHANGED otherVars

\* post_save receiver rh_unified_doc_sync_scores_on_related_docs:
\* unified_document = instance.unified_document loads the row.
SyncLoad(r) ==
    /\ req[r].pc = "sync_load"
    /\ Set(r, [req[r] EXCEPT !.pc = "sync_calc", !.uni = doc])
    /\ UNCHANGED <<votes, doc, discussion_count, now, jobs,
                   rankCache, paperCache, paperHubs, nops>>
    /\ UNCHANGED otherVars

\* An exception raised inside the receiver is not caught there: it leaves
\* vote.save() and the view, and the request ends as a server error.
Propagate(r, rec) == Respond(r, [rec EXCEPT !.raised = TRUE], 500)

\* Reading the clock: the hours that have passed since it was last read are
\* any number up to the bound (the clock is read nowhere else).
ClockReadings == now..MaxNow

\* sync_scores: score = document_obj.calculate_score() and
\* hot_score = document_obj.calculate_hot_score(), or one of them raises.
SyncCalc(r, outcome) ==
    /\ req[r].pc = "sync_calc"
    /\ IF outcome = "ok"
       THEN \E t \in ClockReadings :
            /\ now' = t
            /\ Set(r, [req[r] EXCEPT !.pc = "sync_save",
                         !.score = calculate_score(votes),
                         !.hot_score = calculate_hot_score(votes, discussion_count, t)])
       ELSE /\ Propagate(r, req[r])
            /\ UNCHANGED now
    /\ UNCHANGED <<votes, doc, discussion_count, jobs, rankCache,
                   paperCache, paperHubs, nops>>
    /\ UNCHANGED otherVars

\* sync_scores with a save after each field that differs.
sync_scores_saves_per_field(uni, score, hot_score) ==
    LET hot_differs == uni.hot_score # hot_score
        score_differs == uni.score # score
    IN [should_save |-> hot_differs \/ score_differs,
        saves |-> (IF hot_differs THEN 1 ELSE 0) + (IF score_differs THEN 1 ELSE 0),
        uni |-> [uni EXCEPT !.hot_score = hot_score, !.score = score]]

\* sync_scores, the compare and the write: the fields of the loaded object that
\* differ are set, and unified_doc.save() writes the loaded object once.
sync_scores(uni, score, hot_score) ==
    LET hot_differs == uni.hot_score # hot_score
        score_differs == uni.score # score
        should_save == hot_differs \/ score_differs
    IN [should_save |-> should_save,
        saves |-> IF should_save THEN 1 ELSE 0,
        uni |-> [uni EXCEPT !.hot_score = IF hot_differs THEN hot_score ELSE @,
                            !.score = IF score_differs THEN score ELSE @]]

SyncSave(r) ==
    /\ req[r].pc = "sync_save"
    /\ LET res == sync_scores(req[r].uni, req[r].score, req[r].hot_score) IN
       /\ doc' = IF res.should_save THEN res.uni ELSE doc
       /\ Set(r, [req[r] EXCEPT !.pc = "invalidate", !.uni = res.uni,
                                !.saves = res.saves])
    /\ UNCHANGED <<votes, discussion_count, now, jobs, rankCache,
                   paperCache, paperHubs, nops>>
    /\ UNCHANGED otherVars

\* ----------------------------------------------------- ranking cache keys
Orderings == {"-hot_score", "-score", "-uploaded_date", "-discussed"}
Buckets == {"today", "week", "month", "year", "all_time"}

\* paper.utils.invalidate_*_cache(hub_ids): for every hub of hub_ids the entries of
\* one ordering are deleted, whatever their bucket.
invalidate_trending_cache(cache, hub_ids) ==
    {k \in cache : ~(k[1] \in hub_ids /\ k[2] = "-hot_score")}
invalidate_top_rated_cache(cache, hub_ids) ==
    {k \in cache : ~(k[1] \in hub_ids /\ k[2] = "-score")}
invalidate_newest_cache(cache, hub_ids) ==
    {k \in cache : ~(k[1] \in hub_ids /\ k[2] = "-uploaded_date")}
invalidate_most_discussed_cache(cache, hub_ids) ==
    {k \in cache : ~(k[1] \in hub_ids /\ k[2] = "-discussed")}

\* The invalidations with the one of the newest ordering left out.
vote_invalidate_without_newest(cache, hub_ids) ==
    invalidate_most_discussed_cache(
        invalidate_top_rated_cache(
            invalidate_trending_cache(cache, hub_ids), hub_ids), hub_ids)

\* The four invalidations upvote and downvote make for hub_ids.
vote_invalidate(cache, hub_ids) ==
    invalidate_most_discussed_cache(
        invalidate_newest_cache(
            invalidate_top_rated_cache(
                invalidate_trending_cache(cache, hub_ids), hub_ids), hub_ids), hub_ids)

\* The rest of update_or_create_vote and of upvote / downvote.  On the create
\* path create_contribution.apply_async is called outside any try block: it
\* enqueues (201), or it raises, the exception leaves the view and the lines
\* after update_or_create_vote are not run.  The update path answers 200.  Then
\* the rankings of paper.hubs (a lazy queryset, read here) and the paper's detail
\* entry are deleted.
VoteInvalidate(r, outcome) ==
    /\ req[r].pc = "invalidate"
    /\ outcome = "raise" => req[r].created
    /\ IF outcome = "raise"
       THEN /\ Propagate(r, req[r])
            /\ UNCHANGED <<rankCache, paperCache>>
       ELSE /\ rankCache' = vote_invalidate(rankCache, paperHubs)
            /\ paperCache' = FALSE
            /\ Respond(r, [req[r] EXCEPT !.contributed = req[r].created,
                                         !.dropped = (rankCache' # rankCache)],
                          IF req[r].created THEN 201 ELSE 200)
    /\ UNCHANGED <<votes, doc, discussion_count, now,
                   jobs, paperHubs, nops>>
    /\ UNCHANGED otherVars

\* ------------------------------------------------------ delete_user_vote
\* delete_user_vote without its try block: the AttributeError of None.id leaves
\* the view.
StartDelete_without_try(r, u) ==
    /\ Arrive(r)
    /\ LET rec == [IdleReq EXCEPT !.op = "delete_user_vote", !.user = u]
           found == VotesBy(u) IN
       IF Cardinality(found) = 1
       THEN Set(r, [rec EXCEPT !.pc = "delete_vote",
                               !.vote_id = (CHOOSE v \in found : TRUE).id])
       ELSE Respond(r, [rec EXCEPT !.raised = TRUE], 500)
    /\ UNCHANGED <<votes, doc, discussion_count, now, jobs,
                   rankCache, paperCache, paperHubs>>
    /\ UNCHANGED otherVars

\* vote = retrieve_vote(user, paper); vote_id = vote.id: None has no id, and
\* several records make get() raise; either exception is answered with 400.
StartDelete(r, u) ==
    /\ Arrive(r)
    /\ LET rec == [IdleReq EXCEPT !.op = "delete_user_vote", !.user = u]
           found == VotesBy(u) IN
       IF Cardinality(found) = 1
       THEN Set(r, [rec EXCEPT !.pc = "delete_vote",
                               !.vote_id = (CHOOSE v \in found : TRUE).id])
       ELSE Respond(r, rec, 400)
    /\ UNCHANGED <<votes, doc, discussion_count, now, jobs,
                   rankCache, paperCache, paperHubs>>
    /\ UNCHANGED otherVars

\* vote.delete(): no post_save is sent, so no receiver of the signals module runs.
DeleteVote(r) ==
    /\ req[r].pc = "delete_vote"
    /\ votes' = {v \in votes : v.id # req[r].vote_id}
    /\ Respond(r, req[r], 200)
    /\ UNCHANGED <<doc, discussion_count, now, jobs, rankCache,
                   paperCache, paperHubs, nops>>
    /\ UNCHANGED otherVars

\* ------------------------------------------------------ PaperViewSet.update
\* The request bodies considered: without a 'hubs' field, or with a hub list.
UpdateRequests ==
    {[has_hubs |-> FALSE, hub_ids |-> {}]}
        \cup {[has_hubs |-> TRUE, hub_ids |-> H] : H \in (SUBSET Hubs) \ {{}}}

\* cache.delete(cache_key) of the paper's detail entry comes first.
StartUpdate(r, body) ==
    /\ Arrive(r)
    /\ paperCache' = FALSE
    /\ Set(r, [IdleReq EXCEPT !.pc = "update_write", !.op = "update",
                              !.has_hubs = body.has_hubs, !.hub_ids = body.hub_ids])
    /\ UNCHANGED <<votes, doc, discussion_count, now,
                   jobs, rankCache, paperHubs>>
    /\ UNCHANGED otherVars

\* super().update(request): the serializer writes the fields the body carries.
UpdateWrite(r) ==
    /\ req[r].pc = "update_write"
    /\ paperHubs' = IF req[r].has_hubs THEN req[r].hub_ids ELSE paperHubs
    /\ Set(r, [req[r] EXCEPT !.pc = "update_invalidate"])
    /\ UNCHANGED <<votes, doc, discussion_count, now, jobs,
                   rankCache, paperCache, nops>>
    /\ UNCHANGED otherVars

\* hub_ids = request.data.get('hubs', [])
update_hub_ids(rec) == IF rec.has_hubs THEN rec.hub_ids ELSE {}

UpdateInvalidate(r) ==
    /\ req[r].pc = "update_invalidate"
    /\ rankCache' = vote_invalidate(rankCache, update_hub_ids(req[r]))
    /\ Respond(r, [req[r] EXCEPT !.dropped = (rankCache' # rankCache)], 200)
    /\ UNCHANGED <<votes, doc, discussion_count, now, jobs,
                   paperCache, paperHubs, nops>>
    /\ UNCHANGED otherVars

\* ------------------------------------------------------ get_hub_papers
SecondsPerDay == 86400

\* _set_hub_paper_ordering falling back to the hot ordering.
set_hub_paper_ordering_default_hot(ordering) ==
    IF ordering = "top_rated" THEN "-score"
    ELSE IF ordering = "most_discussed" THEN "-discussed"
    ELSE IF ordering = "newest" THEN "-uploaded_date"
    ELSE "-hot_score"

\* _set_hub_paper_ordering(request)
set_hub_paper_ordering(ordering) ==
    IF ordering = "top_rated" THEN "-score"
    ELSE IF ordering = "most_discussed" THEN "-discussed"
    ELSE IF ordering = "newest" THEN "-uploaded_date"
    ELSE IF ordering = "hot" THEN "-hot_score"
    ELSE "-score"

\* time_difference.days of end_date - start_date, both built from whole seconds:
\* a timedelta keeps 0 <= seconds < 86400, so days is the floor.
time_difference_days(start_date, end_date) ==
    LET d == end_date - start_date IN
    IF d >= 0 THEN d \div SecondsPerDay
    ELSE -((-d + SecondsPerDay - 1) \div SecondsPerDay)

\* The suffix with the first comparison taken as days >= 365.
cache_bucket_from_365(days) ==
    IF days >= 365 THEN "all_time"
    ELSE IF days = 30 \/ days = 31 THEN "month"
    ELSE IF days = 7 THEN "week"
    ELSE "today"

\* The suffix of cache_pk chosen from time_difference.days.
cache_bucket(days) ==
    IF days > 365 THEN "all_time"
    ELSE IF days = 365 THEN "year"
    ELSE IF days = 30 \/ days = 31 THEN "month"
    ELSE IF days = 7 THEN "week"
    ELSE "today"

cache_key_hub(q) ==
    <<q.hub_id, set_hub_paper_ordering(q.ordering),
      cache_bucket(time_difference_days(q.start_date, q.end_date))>>

\* The cache used for every page.
uses_cache_on_every_page(page_number) == TRUE

\* Only the first page goes through the cache.
uses_cache(page_number) == page_number = 1

\* get_hub_papers up to its first access.  Page 1: cache.get_or_set probes the
\* key, and a hit is the response.  Any other page: the papers are filtered,
\* ordered by calculate_paper_ordering, paginated and returned.  cache.get_or_set
\* is called outside any try block: when the cache backend raises, the exception
\* leaves the view and the request is answered with a server error.
StartRead(r, q, outcome) ==
    /\ Arrive(r)
    /\ outcome = "raise" => uses_cache(q.page)
    /\ LET rec == [IdleReq EXCEPT !.op = "get_hub_papers", !.query = q] IN
       IF uses_cache(q.page)
       THEN LET probe == [rec EXCEPT !.probed = TRUE, !.cache_pk = cache_key_hub(q)[3]]
            IN IF outcome = "raise"
               THEN Respond(r, [probe EXCEPT !.raised = TRUE], 500)
               ELSE IF cache_key_hub(q) \in rankCache
                    THEN Respond(r, probe, 200)
                    ELSE Set(r, [probe EXCEPT !.pc = "preload"])
       ELSE Respond(r, [rec EXCEPT !.built = TRUE], 200)
    /\ UNCHANGED <<votes, doc, discussion_count, now, jobs,
                   rankCache, paperCache, paperHubs>>
    /\ UNCHANGED otherVars

\* The miss: execute_celery_hub_precalc computes the page with preload_hub_papers,
\* get_or_set stores it under the key, and the stored page is the response.
Preload(r) ==
    /\ req[r].pc = "preload"
    /\ rankCache' = rankCache \cup {cache_key_hub(req[r].query)}
    /\ Respond(r, [req[r] EXCEPT !.populated = TRUE], 200)
    /\ UNCHANGED <<votes, doc, discussion_count, now, jobs,
                   paperCache, paperHubs, nops>>
    /\ UNCHANGED otherVars

Query(page, hub_id, ordering, width) ==
    [page |-> page, hub_id |-> hub_id, ordering |-> ordering,
     start_date |-> 0, end_date |-> width]

\* The ranking reads considered beside the writes.
SpecQueries ==
    {Query(1, 1, "newest", 7 * SecondsPerDay),
     Query(1, 1, "hot", 0),
     Query(1, 2, "top_rated", 30 * SecondsPerDay),
     Query(2, 1, "most_discussed", 0)}

\* ------------------------------------------------ deferred job, clock
\* Jobs dispatched by requests that are still being served: apply_async is given
\* countdown=5, so a job does not start while its request is still running.
Held == Cardinality({r \in Reqs : req[r].dispatched})

\* recalc_hot_score_task(content_type_id, object_id) on a worker: the hot score
\* is recomputed from the durable votes and persisted, or the job fails and
\* leaves the stored values.
RunJob(outcome) ==
    /\ jobs > Held
    /\ jobs' = jobs - 1
    /\ IF outcome = "ok"
       THEN \E t \in ClockReadings :
            /\ now' = t
            /\ doc' = [doc EXCEPT
                         !.hot_score = calculate_hot_score(votes, discussion_count, t)]
       ELSE UNCHANGED <<doc, now>>
    /\ UNCHANGED <<votes, discussion_count, rankCache, paperCache, paperHubs,
                   req, last, nops>>
    /\ UNCHANGED otherVars

\* ------------------------------------------------------------------- Next
\* Every step of the system: the requests served by the handlers of R, the
\* calls that can fail drawing their outcome from O.
NextWith(R, O) ==
    \/ \E r \in R, u \in Users, t \in VoteTypes : StartVote(r, u, t)
    \/ \E r \in R : RetrieveVote(r)
    \/ \E r \in R, o \in O : SaveVote(r, o)
    \/ \E r \in R, o \in O : CreateVote(r, o)
    \/ \E r \in R : SyncLoad(r)
    \/ \E r \in R, o \in O : SyncCalc(r, o)
    \/ \E r \in R : SyncSave(r)
    \/ \E r \in R, o \in O : VoteInvalidate(r, o)
    \/ \E r \in R, u \in Users : StartDelete(r, u)
    \/ \E r \in R : DeleteVote(r)
    \/ \E r \in R, body \in UpdateRequests : StartUpdate(r, body)
    \/ \E r \in R : UpdateWrite(r)
    \/ \E r \in R : UpdateInvalidate(r)
    \/ \E r \in R, q \in SpecQueries, o \in O : StartRead(r, q, o)
    \/ \E r \in R : Preload(r)
    \/ \E o \in O : RunJob(o)

Next == NextWith(Reqs, Outcomes)

Spec == Init /\ [][Next]_vars

\* No call fails.
NormalNext == NextWith(Reqs, {"ok"})

NormalSpec == Init /\ [][NormalNext]_vars

\* No call fails and one handler serves the requests one after the other; the
\* deferred jobs run between them.
SeqNext == NextWith({"r1"}, {"ok"})

SeqSpec == Init /\ [][SeqNext]_vars

\* Ranking reads alone, over windows of many widths (in seconds): around each
\* recognised width, across a day boundary, empty and reversed windows.
BucketWidths ==
    {-1, 0, SecondsPerDay - 1,
     7 * SecondsPerDay, 8 * SecondsPerDay - 1, 8 * SecondsPerDay,
     30 * SecondsPerDay, 31 * SecondsPerDay, 32 * SecondsPerDay,
     365 * SecondsPerDay, 366 * SecondsPerDay - 1, 366 * SecondsPerDay,
     400 * SecondsPerDay}

BucketQueries == {Query(1, 1, "hot", w) : w \in BucketWidths}

BucketNext ==
    \/ \E r \in Reqs, q \in BucketQueries : StartRead(r, q, "ok")
    \/ \E r \in Reqs : Preload(r)

BucketSpec == Init /\ [][BucketNext]_vars

\* ------------------------------------------- ranking query builder
PaperIds == 1..MaxPapers

\* The votes a ranked paper may have, with the time they were last saved.
VotePool ==
    {[created_by |-> "v1", vote_type |-> UPVOTE, updated_date |-> 0],
     [created_by |-> "v2", vote_type |-> UPVOTE, updated_date |-> 2],
     [created_by |-> "v3", vote_type |-> DOWNVOTE, updated_date |-> 2]}

\* The discussions a ranked paper may have: none, a thread without comments, a
\* later thread with an earlier comment (all of source 'researchhub').
ThreadPool ==
    {{},
     {[created_date |-> 0, comments |-> {}]},
     {[created_date |-> 2, comments |-> {0}]}}

PaperRows == [votes : SUBSET VotePool, hot_score : {1, 2}, threads : ThreadPool]

Collections == [PaperIds -> PaperRows]

\* Stored fields of a paper row: score and discussion_count are current, and
\* papers were uploaded in the order of their ids.
stored_score(row) == calculate_score(row.votes)
stored_discussion_count(row) ==
    Cardinality(row.threads)
        + Cardinality({tc \in row.threads \X {0, 2} : tc[2] \in tc[1].comments})
uploaded_date(p) == p

\* The windows and ordering keys of the reads considered; "none" is a missing
\* or unrecognised key.
RankWindows == {<<0, 0>>, <<2, 2>>, <<0, 2>>}
RankOrderings == {"hot", "top_rated", "most_discussed", "newest", "none"}

\* Python's  word in ordering  for the orderings _set_hub_paper_ordering gives.
OrderingHas(ordering, word) ==
    word \in (CASE ordering = "-hot_score" -> {"hot_score", "score"}
                [] ordering = "-score" -> {"score"}
                [] ordering = "-discussed" -> {"discussed"}
                [] OTHER -> {})

\* __range=[start_date, end_date] is BETWEEN, both ends included.
InRange(t, start_date, end_date) == start_date <= t /\ t <= end_date

\* The rows of the join paper x thread x comment (a thread without comments
\* gives one row with no comment) that pass the filter of the discussed branch.
DiscussedRows(row, start_date, end_date) ==
    {j \in {[thread |-> th, has_comment |-> TRUE, comment |-> c] :
                th \in row.threads, c \in {0, 2}}
           \cup {[thread |-> th, has_comment |-> FALSE, comment |-> 0] :
                th \in row.threads} :
        /\ IF j.has_comment THEN j.comment \in j.thread.comments
                            ELSE j.thread.comments = {}
        /\ \/ InRange(j.thread.created_date, start_date, end_date)
           \/ j.has_comment /\ InRange(j.comment, start_date, end_date)}

\* The hot branch ordering by a hot score derived from the votes at read time.
order_by_recomputed_hot_score(P) ==
    [rows |-> DOMAIN P,
     key |-> [p \in DOMAIN P |-> <<calculate_score(P[p].votes), 0>>]]

\* The branch for 'hot_score': papers.order_by(ordering), the stored field.
order_by_hot_score(P) ==
    [rows |-> DOMAIN P,
     key |-> [p \in DOMAIN P |-> <<P[p].hot_score, 0>>]]

\* The score branch with the votes counted before the window filter: every vote
\* of a paper that has one in the window.
order_by_score_all_votes(P, start_date, end_date) ==
    LET in_time(p) ==
            {v \in P[p].votes : InRange(v.updated_date, start_date, end_date)}
    IN [rows |-> {p \in DOMAIN P : in_time(p) # {}},
        key |-> [p \in DOMAIN P |->
                   <<Upvotes(P[p].votes) - Downvotes(P[p].votes),
                     stored_score(P[p])>>]]

\* The branch for 'score': the papers with a vote saved in the window, the votes
\* counted over the same join, then the stored score.
order_by_score(P, start_date, end_date) ==
    LET in_time(p) ==
            {v \in P[p].votes : InRange(v.updated_date, start_date, end_date)}
    IN [rows |-> {p \in DOMAIN P : in_time(p) # {}},
        key |-> [p \in DOMAIN P |->
                   <<Upvotes(in_time(p)) - Downvotes(in_time(p)),
                     stored_score(P[p])>>]]

\* The branch for 'discussed': threads and comments counted over the filtered
\* join, then the stored discussion_count.
order_by_discussed(P, start_date, end_date) ==
    LET joined(p) == DiscussedRows(P[p], start_date, end_date)
    IN [rows |-> {p \in DOMAIN P : joined(p) # {}},
        key |-> [p \in DOMAIN P |->
                   <<Cardinality(joined(p))
                       + Cardinality({j \in joined(p) : j.has_comment}),
                     stored_discussion_count(P[p])>>]]

\* The last branch with the window applied to the upload date.
order_by_field_in_window(P, ordering, start_date, end_date) ==
    [rows |-> {p \in DOMAIN P : InRange(uploaded_date(p), start_date, end_date)},
     key |-> [p \in DOMAIN P |-> <<uploaded_date(p), 0>>]]

\* The last branch: papers.order_by(ordering); '-uploaded_date' is the one
\* ordering that reaches it.
order_by_field(P, ordering, start_date, end_date) ==
    [rows |-> DOMAIN P,
     key |-> [p \in DOMAIN P |-> <<uploaded_date(p), 0>>]]

\* calculate_paper_ordering(papers, ordering, start_date, end_date): the rows of
\* the queryset and the pair each is ordered by, descending, first then second.
calculate_paper_ordering(P, ordering, start_date, end_date) ==
    IF OrderingHas(ordering, "hot_score") THEN order_by_hot_score(P)
    ELSE IF OrderingHas(ordering, "score")
    THEN order_by_score(P, start_date, end_date)
    ELSE IF OrderingHas(ordering, "discussed")
    THEN order_by_discussed(P, start_date, end_date)
    ELSE order_by_field(P, ordering, start_date, end_date)

\* a comes before or level with b in descending order of the pair.
Before(a, b) == a[1] > b[1] \/ (a[1] = b[1] /\ a[2] >= b[2])

\* The sequences the database may return for an ordered queryset: every row
\* once, in descending order of the keys, rows level on both keys in any order.
Orders(qs) ==
    {f \in [1..Cardinality(qs.rows) -> qs.rows] :
        /\ \A i, j \in DOMAIN f : i # j => f[i] # f[j]
        /\ \A i, j \in DOMAIN f : i < j => Before(qs.key[f[i]], qs.key[f[j]])}

\* get_hub_papers on the query builder: the papers are ordered by
\* calculate_paper_ordering and serialized; nothing is written.  One read is
\* followed per collection.
RankRead(o, w) ==
    /\ ranked = NoRanking
    /\ \E f \in Orders(calculate_paper_ordering(papers, set_hub_paper_ordering(o),
                                                w[1], w[2])) :
          ranked' = [ordering |-> o, start_date |-> w[1], end_date |-> w[2],
                     result |-> f]
    /\ UNCHANGED <<votes, doc, discussion_count, now, jobs, rankCache, paperCache,
                   paperHubs, req, last, nops, papers, paperFlags>>
    /\ UNCHANGED <<auditVars, detailVars>>

\* Ranking reads alone, over every collection of PaperRows.
RankInit ==
    /\ PipelineInit
    /\ papers \in Collections
    /\ ranked = NoRanking
    /\ OtherInit

RankNext == \E o \in RankOrderings, w \in RankWindows : RankRead(o, w)

RankSpec == RankInit /\ [][RankNext]_vars

\* ------------------------------------------- hot score over time
\* The vote sets of a document with up to MaxHotVotes votes, each an UPVOTE or a
\* DOWNVOTE of a voter of its own.
HotVoteSets ==
    {{[id |-> i, created_by |-> i, vote_type |-> f[i]] : i \in DOMAIN f} :
        f \in UNION {[S -> VoteTypes] : S \in SUBSET (1..MaxHotVotes)}}

HotDiscussionCounts == 0..2

\* A document whose stored scores were synced when the clock read 0.
HotInit ==
    /\ votes \in HotVoteSets
    /\ discussion_count \in HotDiscussionCounts
    /\ now = 0
    /\ doc = [score |-> calculate_score(votes),
              hot_score |-> calculate_hot_score(votes, discussion_count, 0)]
    /\ jobs = 0
    /\ rankCache = {}
    /\ paperCache = FALSE
    /\ paperHubs = {1}
    /\ req = [r \in Reqs |-> IdleReq]
    /\ last = Response(IdleReq, 0)
    /\ nops = 0
    /\ papers = <<>>
    /\ ranked = NoRanking
    /\ OtherInit

\* sync_scores at a later reading of the clock, with no vote and no discussion
\* in between: score and hot_score are computed and the fields that differ are
\* written.
HotRecalc(t) ==
    /\ t > now
    /\ now' = t
    /\ doc' = sync_scores(doc, calculate_score(votes),
                          calculate_hot_score(votes, discussion_count, t)).uni
    /\ UNCHANGED <<votes, discussion_count, jobs, rankCache, paperCache,
                   paperHubs, req, last, nops>>
    /\ UNCHANGED otherVars

HotNext == \E t \in ClockReadings : HotRecalc(t)

HotSpec == HotInit /\ [][HotNext]_vars

\* ------------------------------------------------ flag / delete_flag
FlagsBy(u) == {f \in paperFlags : f.created_by = u}

\* flag: Flag.objects.create(paper=paper, created_by=referrer, reason=reason)
Flag(r, u) ==
    /\ Arrive(r)
    /\ LET used == {f.id : f \in paperFlags} \cup {req[q].flag_id : q \in Reqs}
           id == CHOOSE i \in 1..(Cardinality(used) + 1) : i \notin used
       IN paperFlags' = paperFlags \cup {[id |-> id, created_by |-> u]}
    /\ Respond(r, [IdleReq EXCEPT !.op = "flag", !.user = u, !.created = TRUE], 201)
    /\ UNCHANGED <<votes, doc, discussion_count, now, jobs,
                   rankCache, paperCache, paperHubs>>
    /\ UNCHANGED <<rankVars, auditVars, detailVars>>

\* delete_flag, its read: Flag.objects.get(paper=pk, created_by=request.user.id)
\* raises DoesNotExist or MultipleObjectsReturned unless there is one such flag;
\* the except clause answers 400.
StartDeleteFlag(r, u) ==
    /\ Arrive(r)
    /\ LET rec == [IdleReq EXCEPT !.op = "delete_flag", !.user = u]
           found == FlagsBy(u) IN
       IF Cardinality(found) = 1
       THEN Set(r, [rec EXCEPT !.pc = "delete_flag",
                               !.flag_id = (CHOOSE f \in found : TRUE).id])
       ELSE Respond(r, rec, 400)
    /\ UNCHANGED <<votes, doc, discussion_count, now, jobs,
                   rankCache, paperCache, paperHubs>>
    /\ UNCHANGED otherVars

\* flag.delete(): deleting a row that is already gone deletes nothing.
DeleteFlag(r) ==
    /\ req[r].pc = "delete_flag"
    /\ paperFlags' = {f \in paperFlags : f.id # req[r].flag_id}
    /\ Respond(r, req[r], 200)
    /\ UNCHANGED <<votes, doc, discussion_count, now, jobs, rankCache,
                   paperCache, paperHubs, nops>>
    /\ UNCHANGED <<rankVars, auditVars, detailVars>>

\* The vote tables a paper can have when one voter has one vote at most.
VoteTables ==
    {{[id |-> IF u = "u1" THEN 1 ELSE 2, created_by |-> u, vote_type |-> f[u]] :
         u \in DOMAIN f} :
        f \in UNION {[U -> VoteTypes] : U \in SUBSET Users}}

\* The flag tables of a paper: a user may have flagged it more than once.
FlagTables ==
    SUBSET {[id |-> 1, created_by |-> "u1"], [id |-> 2, created_by |-> "u2"],
            [id |-> 3, created_by |-> "u2"]}

\* Deletions of votes and flags, and new flags, on a paper with any votes and
\* flags.
DeleteInit ==
    /\ votes \in VoteTables
    /\ doc = [score |-> calculate_score(votes),
              hot_score |-> calculate_hot_score(votes, 1, 0)]
    /\ discussion_count = 1
    /\ now = 0
    /\ jobs = 0
    /\ rankCache = {}
    /\ paperCache = FALSE
    /\ paperHubs = {1}
    /\ req = [r \in Reqs |-> IdleReq]
    /\ last = Response(IdleReq, 0)
    /\ nops = 0
    /\ papers = <<>>
    /\ ranked = NoRanking
    /\ paperFlags \in FlagTables
    /\ AuditIdle
    /\ DetailIdle

DeleteNext ==
    \/ \E r \in Reqs, u \in Users : StartDelete(r, u)
    \/ \E r \in Reqs : DeleteVote(r)
    \/ \E r \in Reqs, u \in Users : Flag(r, u)
    \/ \E r \in Reqs, u \in Users : StartDeleteFlag(r, u)
    \/ \E r \in Reqs : DeleteFlag(r)

DeleteSpec == DeleteInit /\ [][DeleteNext]_vars

\* ------------------------------------------------ PaperViewSet.create
\* What super().create() does: the paper is created, or the insert violates a
\* unique constraint, or the serializer raises PaperSerializerError.  The text of
\* an IntegrityError is the constraint line, then (when the database gives it)
\* 'DETAIL:  Key (<column>)=(<value>) already exists.'; of the submitted value
\* only whether it contains 'url' or 'doi' matters.
CreateOutcomes ==
    [kind : {"created", "PaperSerializerError"}, has_detail : {FALSE},
     column : {"none"}, value_has_url : {FALSE}, value_has_doi : {FALSE}]
      \cup [kind : {"IntegrityError"}, has_detail : BOOLEAN,
            column : {"url", "doi"}, value_has_url : BOOLEAN, value_has_doi : BOOLEAN]

\* word in parts[1].strip(), the text after 'DETAIL:'
DetailHas(e, word) ==
    \/ e.column = word
    \/ (word = "url" /\ e.value_has_url)
    \/ (word = "doi" /\ e.value_has_doi)

UrlExists == "A paper with this url already exists."
DoiExists == "A paper with this DOI already exists."
UrlOrDoiExists == "A paper with this url or DOI already exists."

\* _get_integrity_error_response: without 'DETAIL:' parts[1] raises IndexError and
\* the message names both fields; with it, the message becomes the url sentence
\* when the detail contains 'url', and then the DOI sentence when the message (the
\* detail, or the url sentence that replaced it) contains 'doi'.
get_integrity_error_response(e) ==
    IF ~e.has_detail THEN UrlOrDoiExists
    ELSE LET after_url == IF DetailHas(e, "url") THEN UrlExists ELSE "detail"
             \* 'doi' in error_message: the url sentence does not contain 'doi'
             has_doi == after_url = "detail" /\ DetailHas(e, "doi")
         IN IF has_doi THEN DoiExists ELSE after_url

\* The hubs field of the form: absent, or a list of hub ids.
CreateHubs == {<<>>, <<1>>, <<2>>, <<1, 2>>, <<2, 1>>}

\* create: super().create(), then list(request.POST['hubs']) (the last value of
\* the field; a form without the field raises, uncaught) and the trending and
\* newest rankings of those hubs are deleted.  IntegrityError and
\* PaperSerializerError are answered with 400.
Create(r, hubs, e) ==
    /\ Arrive(r)
    /\ LET rec == [IdleReq EXCEPT !.op = "create"] IN
       IF e.kind = "created"
       THEN IF hubs = <<>>
            THEN /\ Respond(r, [rec EXCEPT !.created = TRUE, !.raised = TRUE], 500)
                 /\ UNCHANGED rankCache
            ELSE /\ rankCache' = invalidate_newest_cache(
                                    invalidate_trending_cache(rankCache, {hubs[Len(hubs)]}),
                                    {hubs[Len(hubs)]})
                 /\ Respond(r, [rec EXCEPT !.created = TRUE,
                                           !.dropped = (rankCache' # rankCache)], 201)
       ELSE /\ UNCHANGED rankCache
            /\ Respond(r, [rec EXCEPT !.error =
                             IF e.kind = "IntegrityError"
                             THEN get_integrity_error_response(e)
                             ELSE "PaperSerializerError",
                           !.cause = e], 400)
    /\ UNCHANGED <<votes, doc, discussion_count, now, jobs, paperCache, paperHubs>>
    /\ UNCHANGED otherVars

\* The ranking entries present when a paper is submitted.
CreateCaches ==
    SUBSET {<<1, "-hot_score", "today">>, <<1, "-uploaded_date", "today">>,
            <<2, "-score", "today">>, <<2, "-hot_score", "week">>}

CreateInit ==
    /\ votes = {}
    /\ doc = [score |-> 0, hot_score |-> 0]
    /\ discussion_count = 1
    /\ now = 0
    /\ jobs = 0
    /\ rankCache \in CreateCaches
    /\ paperCache = FALSE
    /\ paperHubs = {1}
    /\ req = [r \in Reqs |-> IdleReq]
    /\ last = Response(IdleReq, 0)
    /\ nops = 0
    /\ papers = <<>>
    /\ ranked = NoRanking
    /\ OtherInit

CreateNext == \E r \in Reqs, hubs \in CreateHubs, e \in CreateOutcomes : Create(r, hubs, e)

CreateSpec == CreateInit /\ [][CreateNext]_vars

\* ------------------------------------------------ AuditViewSet
AuditOps == {"flag_and_remove", "dismiss_flagged_content", "remove_flagged_content"}

\* The endpoints that take the ids of existing flags.
LoopOps == {"dismiss_flagged_content", "remove_flagged_content"}

FlagIdsOf(F) == {f.id : f \in F}
FlagRow(id) == CHOOSE f \in auditFlags : f.id = id

\* Sequences without repetition over a set, of length up to n.
RECURSIVE Arrangements(_, _)
Arrangements(S, n) ==
    IF n = 0 THEN {<<>>}
    ELSE {<<>>} \cup UNION {{<<x>> \o t : t \in Arrangements(S \ {x}, n - 1)} : x \in S}

\* Flag.objects.filter(id__in=flag_ids): the selected flags that exist, in the
\* order the database returns them.
SelectedFlags == Arrangements(FlagIdsOf(auditFlags), 2)

\* dismiss_flagged_content / remove_flagged_content up to the loop: the verdict
\* data is prepared and the selected flags are read.
StartModerate(r, op, sel) ==
    /\ Arrive(r)
    /\ LET rec == [IdleReq EXCEPT !.op = op, !.todo = sel,
                                  !.removes = (op = "remove_flagged_content"),
                                  !.body = "empty"]
       IN IF sel = <<>>
          THEN Respond(r, rec, 200)
          ELSE Set(r, [rec EXCEPT !.pc = "verdict"])
    /\ UNCHANGED <<votes, doc, discussion_count, now, jobs,
                   rankCache, paperCache, paperHubs>>
    /\ UNCHANGED otherVars

\* The flag lists a flag_and_remove request may carry: one or two items.
FlagData == {<<i>> : i \in ItemIds} \cup {<<i, j>> : i, j \in ItemIds}

\* flag_and_remove up to the loop: flag_serializer.save() creates a flag for every
\* entry of the request; the verdict carries the request's is_content_removed.
\* (The Flag table holds up to MaxFlags rows.)
StartFlagAndRemove(r, items, removed) ==
    /\ Arrive(r)
    /\ Cardinality(auditFlags) + Len(items) <= MaxFlags
    /\ LET base == Cardinality(auditFlags)
           ids == [k \in DOMAIN items |-> base + k]
       IN /\ auditFlags' = auditFlags \cup
                {[id |-> ids[k], item |-> items[k], verdict |-> "none",
                  stamped |-> FALSE] : k \in DOMAIN items}
          /\ Set(r, [IdleReq EXCEPT !.op = "flag_and_remove", !.pc = "verdict",
                                    !.todo = ids, !.removes = removed,
                                    !.body = "data"])
    /\ UNCHANGED <<votes, doc, discussion_count, now, jobs,
                   rankCache, paperCache, paperHubs>>
    /\ UNCHANGED <<rankVars, detailVars, paperFlags, content>>

\* except Exception: the error is logged and Response({}, status=500) is returned;
\* what the loop has written stays.
ModerationFails(r) == Respond(r, [req[r] EXCEPT !.body = "empty"], 500)

\* The loop goes on to the next flag, or ends and the view answers 200.
NextFlag(r) ==
    LET rec == [req[r] EXCEPT !.done = Append(@, Head(req[r].todo)),
                              !.todo = Tail(@)]
    IN IF rec.todo = <<>>
       THEN Respond(r, rec, 200)
       ELSE Set(r, [rec EXCEPT !.pc = "verdict"])

\* verdict_serializer.is_valid(raise_exception=True); verdict = verdict_serializer.save():
\* a verdict is created for the flag, removing content or not, or validation or
\* the insert raises.
Verdict(r, outcome) ==
    /\ req[r].pc = "verdict"
    /\ IF outcome = "raise"
       THEN /\ ModerationFails(r)
            /\ UNCHANGED auditFlags
       ELSE /\ auditFlags' =
                 {IF f.id = Head(req[r].todo)
                  THEN [f EXCEPT !.verdict = IF req[r].removes THEN "removed" ELSE "kept"]
                  ELSE f : f \in auditFlags}
            /\ IF req[r].op = "remove_flagged_content"
               THEN Set(r, [req[r] EXCEPT !.pc = "stamp"])
               ELSE IF req[r].removes
               THEN Set(r, [req[r] EXCEPT !.pc = "remove"])
               ELSE NextFlag(r)
    /\ UNCHANGED <<votes, doc, discussion_count, now, jobs,
                   rankCache, paperCache, paperHubs, nops>>
    /\ UNCHANGED <<rankVars, detailVars, paperFlags, content>>

\* remove_flagged_content going on to the removal with the flag left unstamped.
Stamp_without_save(r, outcome) ==
    /\ req[r].pc = "stamp"
    /\ IF outcome = "raise"
       THEN ModerationFails(r)
       ELSE Set(r, [req[r] EXCEPT !.pc = "remove"])
    /\ UNCHANGED <<votes, doc, discussion_count, now, jobs,
                   rankCache, paperCache, paperHubs, nops>>
    /\ UNCHANGED <<rankVars, detailVars, paperFlags, content, auditFlags>>

\* remove_flagged_content: flag.verdict_created_date = verdict.created_date; flag.save()
Stamp(r, outcome) ==
    /\ req[r].pc = "stamp"
    /\ IF outcome = "raise"
       THEN /\ ModerationFails(r)
            /\ UNCHANGED auditFlags
       ELSE /\ auditFlags' =
                 {IF f.id = Head(req[r].todo) THEN [f EXCEPT !.stamped = TRUE] ELSE f :
                    f \in auditFlags}
            /\ Set(r, [req[r] EXCEPT !.pc = "remove"])
    /\ UNCHANGED <<votes, doc, discussion_count, now, jobs,
                   rankCache, paperCache, paperHubs, nops>>
    /\ UNCHANGED <<rankVars, detailVars, paperFlags, content>>

\* _remove_flagged_content with the unified document left as it is.
remove_flagged_item_only(item) ==
    IF item.kind = "comment"
    THEN [item EXCEPT !.is_removed = TRUE]
    ELSE item

\* _remove_flagged_content, its first write: a comment is marked removed and
\* saved; of any other item the unified document is marked removed and saved.
remove_flagged_item(item) ==
    IF item.kind = "comment"
    THEN [item EXCEPT !.is_removed = TRUE]
    ELSE [item EXCEPT !.uni_removed = TRUE]

\* (item.unified_document is None for a paper without one: the attribute
\* access on it raises.)
RemoveItem(r, outcome) ==
    /\ req[r].pc = "remove"
    /\ LET i == FlagRow(Head(req[r].todo)).item IN
       IF outcome = "raise" \/ (content[i].kind = "paper" /\ ~paper.unified_document)
       THEN /\ ModerationFails(r)
            /\ UNCHANGED <<content, paperCache>>
       ELSE /\ content' = [content EXCEPT ![i] = remove_flagged_item(@)]
            /\ UNCHANGED paperCache
            /\ IF content[i].kind = "paper"
               THEN Set(r, [req[r] EXCEPT !.pc = "remove_paper"])
               ELSE NextFlag(r)
    /\ UNCHANGED <<votes, doc, discussion_count, now, jobs,
                   rankCache, paperHubs, nops>>
    /\ UNCHANGED <<rankVars, detailVars, paperFlags, auditFlags>>

\* sync_is_removed_from_paper, the post_save receiver of Paper: the unified
\* document of the saved instance, when it has one, takes the instance's
\* is_removed and is saved; an exception is swallowed.
sync_is_removed_from_paper(instance, item, outcome) ==
    IF outcome = "ok" /\ instance.unified_document
    THEN [item EXCEPT !.uni_removed = instance.is_removed]
    ELSE item

\* _remove_flagged_content, when the inner document is a paper: it is marked
\* removed, its cache entry is reset and it is saved.
RemovePaper(r, outcome) ==
    /\ req[r].pc = "remove_paper"
    /\ LET i == FlagRow(Head(req[r].todo)).item IN
       IF outcome = "raise"
       THEN /\ ModerationFails(r)
            /\ UNCHANGED <<content, paperCache>>
       ELSE /\ content' = [content EXCEPT ![i].is_removed = TRUE]
            /\ paperCache' = FALSE
            /\ Set(r, [req[r] EXCEPT !.pc = "remove_sync",
                                     !.instance = [is_public |-> paper.is_public,
                                                   is_removed |-> TRUE,
                                                   unified_document |-> paper.unified_document,
                                                   hubs |-> paperHubs]])
    /\ UNCHANGED <<votes, doc, discussion_count, now, jobs,
                   rankCache, paperHubs, nops>>
    /\ UNCHANGED <<rankVars, detailVars, paperFlags, auditFlags>>

\* inner_doc.save() then runs the receiver, with the instance just saved.
RemoveSync(r, outcome) ==
    /\ req[r].pc = "remove_sync"
    /\ LET i == FlagRow(Head(req[r].todo)).item IN
       content' = [content EXCEPT ![i] =
                     sync_is_removed_from_paper(req[r].instance, @, outcome)]
    /\ NextFlag(r)
    /\ UNCHANGED <<votes, doc, discussion_count, now, jobs,
                   rankCache, paperCache, paperHubs, nops>>
    /\ UNCHANGED <<rankVars, detailVars, paperFlags, auditFlags>>

\* The moderation Flag tables before the first moderation request.
AuditFlagTables ==
    {{[id |-> k, item |-> f[k], verdict |-> "none", stamped |-> FALSE] : k \in DOMAIN f} :
        f \in UNION {[1..n -> ItemIds] : n \in 0..MaxFlags}}

AuditInit ==
    /\ PipelineInit
    /\ papers = <<>>
    /\ ranked = NoRanking
    /\ paperFlags = {}
    /\ content = Published
    /\ auditFlags \in AuditFlagTables
    /\ DetailIdle

\* Moderation requests, served one after the other; any write may fail.
AuditNext ==
    \/ \E op \in LoopOps, sel \in SelectedFlags : StartModerate("r1", op, sel)
    \/ \E items \in FlagData, removed \in BOOLEAN : StartFlagAndRemove("r1", items, removed)
    \/ \E o \in Outcomes : Verdict("r1", o)
    \/ \E o \in Outcomes : Stamp("r1", o)
    \/ \E o \in Outcomes : RemoveItem("r1", o)
    \/ \E o \in Outcomes : RemovePaper("r1", o)
    \/ \E o \in Outcomes : RemoveSync("r1", o)

AuditSpec == AuditInit /\ [][AuditNext]_vars

\* ------------------------------------------------ PaperViewSet.retrieve
\* What the request carries: the make_public parameter, and whether it sees
\* the papers that are not public too (the 'all' parameter, a staff user).
\* cache_hit = cache.get(cache_key) comes first.
StartRetrieve(r, make_public, sees_all) ==
    /\ Arrive(r)
    /\ Set(r, [IdleReq EXCEPT !.pc = "retrieve_load", !.op = "retrieve",
                              !.make_public = make_public, !.sees_all = sees_all,
                              !.cache_hit = paperCache,
                              !.body = IF paperCache THEN "cached" ELSE "none"])
    /\ UNCHANGED <<votes, doc, discussion_count, now, jobs,
                   rankCache, paperCache, paperHubs>>
    /\ UNCHANGED otherVars

\* get_queryset: Q(is_public=True), or Q() with make_public or all; a staff
\* user gets the whole queryset.
get_queryset(rec) == rec.make_public \/ rec.sees_all \/ paper.is_public

\* instance = self.get_object(): the row is loaded with its prefetched hubs, or
\* the paper is not in the queryset and the answer is 404.  A cache hit is
\* answered here (if cache_hit is not None: ... return Response(cache_hit));
\* otherwise the make_public block saves, or the instance goes to
\* the serializer.
RetrieveLoad(r) ==
    /\ req[r].pc = "retrieve_load"
    /\ LET instance == [is_public |-> paper.is_public,
                        is_removed |-> content["paper"].is_removed,
                        unified_document |-> paper.unified_document,
                        hubs |-> paperHubs]
           rec == [req[r] EXCEPT !.instance = instance]
       IN IF ~get_queryset(req[r])
          THEN Respond(r, req[r], 404)
          ELSE IF req[r].cache_hit
          THEN Respond(r, rec, 200)
          ELSE IF req[r].make_public /\ ~instance.is_public
          THEN Set(r, [rec EXCEPT !.pc = "retrieve_save",
                                  !.instance.is_public = TRUE])
          ELSE Set(r, [rec EXCEPT !.pc = "retrieve_store"])
    /\ UNCHANGED <<votes, doc, discussion_count, now, jobs,
                   rankCache, paperCache, paperHubs, nops>>
    /\ UNCHANGED otherVars

\* instance.is_public = True; instance.save(): the whole row is written from the
\* instance.
RetrieveSave(r) ==
    /\ req[r].pc = "retrieve_save"
    /\ paper' = [paper EXCEPT !.is_public = req[r].instance.is_public]
    /\ content' = [content EXCEPT !["paper"].is_removed = req[r].instance.is_removed]
    /\ Set(r, [req[r] EXCEPT !.pc = "retrieve_sync", !.saves = 1])
    /\ UNCHANGED <<votes, doc, discussion_count, now, jobs,
                   rankCache, paperCache, paperHubs, nops>>
    /\ UNCHANGED <<rankVars, paperFlags, auditFlags, cached>>

\* The save then runs the receiver, with the instance just saved.
RetrieveSync(r, outcome) ==
    /\ req[r].pc = "retrieve_sync"
    /\ content' = [content EXCEPT !["paper"] =
                     sync_is_removed_from_paper(req[r].instance, @, outcome)]
    /\ Set(r, [req[r] EXCEPT !.pc = "retrieve_store"])
    /\ UNCHANGED <<votes, doc, discussion_count, now, jobs,
                   rankCache, paperCache, paperHubs, nops>>
    /\ UNCHANGED <<rankVars, detailVars, paperFlags, auditFlags>>

\* serializer.data, as far as it is followed here.
serialize(instance) == [is_public |-> instance.is_public, hubs |-> instance.hubs]

\* cache.set(cache_key, serializer_data, timeout=60*60*24*7); Response(serializer_data)
RetrieveStore(r) ==
    /\ req[r].pc = "retrieve_store"
    /\ paperCache' = TRUE
    /\ cached' = serialize(req[r].instance)
    /\ Respond(r, [req[r] EXCEPT !.populated = TRUE, !.body = "serialized"], 200)
    /\ UNCHANGED <<votes, doc, discussion_count, now, jobs,
                   rankCache, paperHubs, nops>>
    /\ UNCHANGED <<rankVars, paperFlags, content, auditFlags, paper>>

\* The papers the detail endpoint is followed on: public or not, with a unified
\* document or without.
PaperStates == [is_public : BOOLEAN, unified_document : BOOLEAN]

\* The paper is flagged once for moderation, or not at all.
DetailFlagTables ==
    {{}, {[id |-> 1, item |-> "paper", verdict |-> "none", stamped |-> FALSE]}}

DetailInit ==
    /\ PipelineInit
    /\ papers = <<>>
    /\ ranked = NoRanking
    /\ paperFlags = {}
    /\ content = Published
    /\ auditFlags \in DetailFlagTables
    /\ paper \in PaperStates
    /\ cached = NoData

\* Retrieves and updates of the paper and removals of it by a moderator, served
\* by the handlers of R at once; of the calls only the receiver's save may fail.
DetailNextWith(R) ==
    \/ \E r \in R, m \in BOOLEAN, a \in BOOLEAN : StartRetrieve(r, m, a)
    \/ \E r \in R : RetrieveLoad(r)
    \/ \E r \in R : RetrieveSave(r)
    \/ \E r \in R, o \in Outcomes : RetrieveSync(r, o)
    \/ \E r \in R : RetrieveStore(r)
    \/ \E r \in R, body \in UpdateRequests : StartUpdate(r, body)
    \/ \E r \in R : UpdateWrite(r)
    \/ \E r \in R : UpdateInvalidate(r)
    \/ \E r \in R, sel \in SelectedFlags : StartModerate(r, "remove_flagged_content", sel)
    \/ \E r \in R : Verdict(r, "ok")
    \/ \E r \in R : Stamp(r, "ok")
    \/ \E r \in R : RemoveItem(r, "ok")
    \/ \E r \in R : RemovePaper(r, "ok")
    \/ \E r \in R, o \in Outcomes : RemoveSync(r, o)

DetailNext == DetailNextWith(Reqs)

DetailSpec == DetailInit /\ [][DetailNext]_vars

\* The same requests served one after the other.
SerialDetailNext == DetailNextWith({"r1"})

SerialDetailSpec == DetailInit /\ [][SerialDetailNext]_vars

\* ================================================================= claims
\* Nothing is being served and no deferred job is waiting.
Quiet == (\A r \in Reqs : Free(r)) /\ jobs = 0

\* What one vote adds to the score.
Contribution(v) == IF v.vote_type = UPVOTE THEN 1 ELSE -1

VoteOps == {"upvote", "downvote"}

\* The step in which handler r answers its request from position pc.
Answers(r, pc) == req[r].pc = pc /\ req'[r].pc = "idle"

\* C1: after any sequence of vote creations, vote-type changes and vote
\* deletions, each with its triggered recompute done, the stored score is the
\* number of UPVOTE votes minus the number of DOWNVOTE votes.
C1_ScoreIsNetVotes == Quiet => doc.score = Upvotes(votes) - Downvotes(votes)

\* C2: in every reachable state, whatever the interleaving of the requests, a
\* voter has at most one Vote record on the paper.
C2_OneVotePerVoter == \A u \in Users : Cardinality(VotesBy(u)) <= 1

\* C3: when an upvote or downvote is answered after its vote was written, the
\* ranking cache holds no entry of any ordering for any hub of the paper.
C3_VoteDropsHubRankings ==
    [][\A r \in Reqs : Answers(r, "invalidate") =>
          \A h \in paperHubs, o \in Orderings, b \in Buckets :
              <<h, o, b>> \notin rankCache']_vars

\* A vote was answered, it deleted entries, and none of the paper's hubs is left.
C3_Witness ==
    /\ last.op \in VoteOps
    /\ last.status \in {200, 201}
    /\ last.dropped
    /\ \A k \in rankCache : k[1] \notin paperHubs

\* C4: when PaperViewSet.update is answered, the ranking cache holds no entry
\* for any hub the paper belongs to, whatever fields the request carried.
C4_UpdateDropsHubRankings ==
    [][\A r \in Reqs : Answers(r, "update_invalidate") =>
          \A k \in rankCache' : k[1] \notin paperHubs']_vars

\* The bucket of a window of w seconds, by its width in whole days: 365 is year,
\* 30 and 31 are month, 7 is week, more than 365 is all_time, the rest is today.
WindowBucket(w) ==
    IF 365 * SecondsPerDay <= w /\ w < 366 * SecondsPerDay THEN "year"
    ELSE IF 30 * SecondsPerDay <= w /\ w < 32 * SecondsPerDay THEN "month"
    ELSE IF 7 * SecondsPerDay <= w /\ w < 8 * SecondsPerDay THEN "week"
    ELSE IF 366 * SecondsPerDay <= w THEN "all_time"
    ELSE "today"

Width(q) == q.end_date - q.start_date

\* C5 (amended): the bucket of a first-page ranking read is a function of the
\* window width in whole days: 365 gives year, 30 or 31 month, 7 week, more than
\* 365 all_time, and every other width (zero and negative too) today.
C5_BucketOfWindow ==
    \A r \in Reqs : req[r].pc = "preload" =>
        req[r].cache_pk = WindowBucket(Width(req[r].query))

\* A read of a window wider than 365 days has probed the all_time bucket.
C5_Witness ==
    \E r \in Reqs :
        /\ req[r].pc = "preload"
        /\ Width(req[r].query) >= 366 * SecondsPerDay
        /\ req[r].cache_pk = "all_time"

\* C5 as stated: every width other than 365, 30, 31 and 7 days, widths of more
\* than 365 days included, gives today.
C5_OtherWidthsToday ==
    \A r \in Reqs : req[r].pc = "preload" =>
        LET w == Width(req[r].query) IN
        req[r].cache_pk =
            IF 365 * SecondsPerDay <= w /\ w < 366 * SecondsPerDay THEN "year"
            ELSE IF 30 * SecondsPerDay <= w /\ w < 32 * SecondsPerDay THEN "month"
            ELSE IF 7 * SecondsPerDay <= w /\ w < 8 * SecondsPerDay THEN "week"
            ELSE "today"

\* C6: a ranking read of a page other than 1 neither probes nor populates the
\* ranking cache and is answered by the query builder.
C6_OnlyFirstPageUsesCache ==
    /\ \A r \in Reqs :
          (req[r].op = "get_hub_papers" /\ req[r].query.page # 1) =>
              ~req[r].probed /\ req[r].pc # "preload"
    /\ (last.op = "get_hub_papers" /\ last.page # 1) =>
          last.built /\ ~last.probed /\ ~last.populated

\* A later page was read while the ranking cache held entries.
C6_Witness ==
    /\ last.op = "get_hub_papers"
    /\ last.page # 1
    /\ last.built
    /\ rankCache # {}

\* C7: the request that deletes a user's vote changes the stored score by the
\* removed vote's contribution: down by 1 for an UPVOTE, up by 1 for a DOWNVOTE.
C7_DeleteMovesScore ==
    [][\A r \in Reqs : Answers(r, "delete_vote") =>
          \A v \in votes : v.id = req[r].vote_id =>
              doc'.score = doc.score - Contribution(v)]_vars

\* C8: once the votes of two different users, the only two requests, have both
\* been answered and their deferred jobs have run, the stored score is upvotes
\* minus downvotes over the final vote set, however the two requests interleaved.
C8_ConcurrentVotesSettle ==
    (/\ nops = 2
     /\ Quiet
     /\ \A u \in Users : Cardinality(VotesBy(u)) = 1
     /\ last.op \in VoteOps
     /\ last.status = 201)
    => doc.score = Upvotes(votes) - Downvotes(votes)

\* The step in which handler r compares and persists.
Syncs(r) == req[r].pc = "sync_save" /\ req'[r].pc = "invalidate"

\* sync_scores run once more on the document the first run left, at clock reading t.
Rerun(r, t) ==
    sync_scores(req'[r].uni, calculate_score(votes),
                calculate_hot_score(votes, discussion_count, t))

C10_SyncFailureIsContained ==
    [][\A r \in Reqs : Answers(r, "sync_calc") =>
          /\ last'.logged
          /\ doc' = doc
          /\ last'.status \in {200, 201}]_vars

\* ------------------------------------------------- ranking reads (RankSpec)
Result == ranked.result
Ranked(p) == \E i \in DOMAIN Result : Result[i] = p

\* The votes of paper p saved inside the window of the read.
WindowVotes(p) ==
    {v \in papers[p].votes :
        ranked.start_date <= v.updated_date /\ v.updated_date <= ranked.end_date}
WindowScore(p) ==
    Cardinality({v \in WindowVotes(p) : v.vote_type = UPVOTE})
        - Cardinality({v \in WindowVotes(p) : v.vote_type = DOWNVOTE})
AllTimeScore(p) ==
    Cardinality({v \in papers[p].votes : v.vote_type = UPVOTE})
        - Cardinality({v \in papers[p].votes : v.vote_type = DOWNVOTE})

\* No paper is returned twice.
NoRepeats == \A i, j \in DOMAIN Result : i # j => Result[i] # Result[j]

\* The result is in descending order of the window score, papers level on it in
\* descending order of the all-time score.
ByWindowThenAllTime ==
    \A i, j \in DOMAIN Result : i < j =>
        \/ WindowScore(Result[i]) > WindowScore(Result[j])
        \/ /\ WindowScore(Result[i]) = WindowScore(Result[j])
           /\ AllTimeScore(Result[i]) >= AllTimeScore(Result[j])

\* C16 (amended): a read whose ordering key is missing or unrecognised is served
\* as a top_rated read: the papers with a vote in the window, by window score
\* descending, then all-time score descending.
C16_FallbackIsTopRated ==
    ranked.ordering = "none" =>
        /\ NoRepeats
        /\ \A p \in DOMAIN papers : Ranked(p) <=> WindowVotes(p) # {}
        /\ ByWindowThenAllTime

\* The fallback ranked a paper and left out one whose votes are all outside the
\* window.
C16_Witness ==
    /\ ranked.ordering = "none"
    /\ Result # <<>>
    /\ \E p \in DOMAIN papers : ~Ranked(p) /\ papers[p].votes # {}

\* C16 as stated: a read whose ordering key is missing or unrecognised returns
\* the whole collection by all-time score descending, whatever the window.
C16_FallbackIsAllTimeScore ==
    ranked.ordering = "none" =>
        /\ NoRepeats
        /\ \A p \in DOMAIN papers : Ranked(p)
        /\ \A i, j \in DOMAIN Result :
              i < j => AllTimeScore(Result[i]) >= AllTimeScore(Result[j])

\* C17: a read ordered 'hot' returns every paper once in descending order of
\* the stored hot_score, and no ranking read, served by the cache or by the
\* query builder, changes a stored score or hot_score, a vote or the job queue.
C17_HotReadsStoredScores ==
    [][/\ (ranked' # ranked /\ ranked'.ordering = "hot") =>
             /\ \A i, j \in DOMAIN ranked'.result :
                   i < j => /\ ranked'.result[i] # ranked'.result[j]
                            /\ papers[ranked'.result[i]].hot_score
                                 >= papers[ranked'.result[j]].hot_score
             /\ \A p \in DOMAIN papers :
                   \E i \in DOMAIN ranked'.result : ranked'.result[i] = p
       /\ (\/ ranked' # ranked
           \/ \E r \in Reqs : req[r].op = "get_hub_papers"
                                 /\ req'[r] # req[r]
           \/ (nops' # nops /\ \E r \in Reqs : req'[r].op = "get_hub_papers"
                                 /\ req[r].pc = "idle")
           \/ (last' # last /\ last'.op = "get_hub_papers"))
             => /\ papers' = papers
                /\ doc' = doc
                /\ votes' = votes
                /\ jobs' = jobs]_vars

\* A hot read ranked a paper with fewer votes, but the higher stored hot_score,
\* first.
C17_Witness ==
    /\ ranked.ordering = "hot"
    /\ \E i, j \in DOMAIN Result :
          /\ i < j
          /\ papers[Result[i]].hot_score > papers[Result[j]].hot_score
          /\ AllTimeScore(Result[i]) < AllTimeScore(Result[j])

\* C18: for top_rated and most_discussed, a read with a zero-width window
\* returns the papers of the all-time ordering, in an order the all-time
\* ordering allows.
C18_EmptyWindowIsAllTime ==
    (/\ ranked.ordering \in {"top_rated", "most_discussed"}
     /\ ranked.start_date = ranked.end_date)
    => Result \in Orders(calculate_paper_ordering(
                             papers, set_hub_paper_ordering(ranked.ordering), 0, 2))

\* C19: a 'newest' read with a zero-width window returns every paper once, by
\* upload date descending.
C19_NewestIgnoresWindow ==
    (ranked.ordering = "newest" /\ ranked.start_date = ranked.end_date) =>
        /\ NoRepeats
        /\ \A p \in DOMAIN papers : Ranked(p)
        /\ \A i, j \in DOMAIN Result :
              i < j => uploaded_date(Result[i]) >= uploaded_date(Result[j])

\* A newest read with a zero-width window returned a paper uploaded outside the
\* window.
C19_Witness ==
    /\ ranked.ordering = "newest"
    /\ ranked.start_date = ranked.end_date
    /\ \E i \in DOMAIN Result : uploaded_date(Result[i]) # ranked.start_date

\* C20: a top_rated read ranks by upvotes minus downvotes among the votes in
\* the window, descending, papers level on it by all-time score descending.
C20_TopRatedByWindowScore ==
    ranked.ordering = "top_rated" => NoRepeats /\ ByWindowThenAllTime

\* Two papers level on the window score were ranked by their different all-time
\* scores, and the window score of one differs from its all-time score.
C20_Witness ==
    /\ ranked.ordering = "top_rated"
    /\ \E i, j \in DOMAIN Result :
          /\ i < j
          /\ WindowScore(Result[i]) = WindowScore(Result[j])
          /\ AllTimeScore(Result[i]) > AllTimeScore(Result[j])
          /\ WindowScore(Result[i]) # AllTimeScore(Result[i])

\* C15: when the cache backend raises on the probe of a first-page read, the
\* read is still answered: it goes on to the query builder and returns a page
\* built from the database.
C15_CacheErrorFallsThrough ==
    (last.op = "get_hub_papers" /\ last.raised) =>
        (last.status = 200 /\ last.built)

\* The vote row handler r has written or is about to write.
VoteOf(rec) == [id |-> rec.vote_id, created_by |-> rec.user, vote_type |-> rec.vote_type]

Triggers(r) == req[r].pc # "sync_load" /\ req'[r].pc = "sync_load"

\* The step in which handler r saves a vote row (create or update).
SavesVote(r) ==
    /\ req[r].pc \in {"save_vote", "create_vote"} /\ req'[r].pc # req[r].pc
    /\ VoteOf(req'[r]) \in votes'

C11_PersistThenInvalidate ==
    [][\A r \in Reqs :
         (req[r].op \in VoteOps /\ req[r].saves > 0 /\ ~Free(r) /\ req'[r].pc = "idle")
            => \A k \in rankCache' : k[1] \notin paperHubs]_vars

\* The stored score and hot_score are the values derived from the durable votes
\* (the hot score as derived at some reading of the clock so far).
Fresh ==
    /\ doc.score = calculate_score(votes)
    /\ \E t \in 0..now : doc.hot_score = calculate_hot_score(votes, discussion_count, t)

\* C13: when votes are the only requests received and each created a record,
\* once everything scheduled has run (every handler has answered, no deferred
\* job is left) and no further vote arrives, the stored score and hot_score are
\* the values derived from the durable vote set.
C13_SettledVoteIsFresh ==
    (/\ Quiet
     /\ nops > 0
     /\ Cardinality(votes) = nops
     /\ last.op \in VoteOps
     /\ last.status = 201)
    => Fresh

\* ------------------------------------------------ hot score (HotSpec)
\* The quantity the hot score divides by the age factor.
HotWeight == calculate_score(votes) + discussion_count * DiscussionWeight

DeleteOps == {"delete_user_vote", "delete_flag"}

\* The step in which a request arrives and is answered at once.
AnsweredOnArrival == nops' = nops + 1 /\ last' # last

\* C22: a delete_user_vote or delete_flag request of a user who has no vote,
\* respectively no flag, on the paper never reaches the deletion: it is
\* answered on arrival, and a deletion answered on arrival has status 400,
\* raised nothing out of the handler and left every vote and flag record as it
\* was.
C22_DeleteOfNothingIs4xx ==
    [][/\ \A r \in Reqs :
             (Free(r) /\ req'[r].pc = "delete_vote") => VotesBy(req'[r].user) # {}
       /\ \A r \in Reqs :
             (Free(r) /\ req'[r].pc = "delete_flag") => FlagsBy(req'[r].user) # {}
       /\ (AnsweredOnArrival /\ last'.op \in DeleteOps) =>
             /\ last'.status = 400
             /\ ~last'.raised
             /\ votes' = votes
             /\ paperFlags' = paperFlags]_vars

\* A vote deletion was refused while some user has no vote, and the tables are
\* not empty.
C22_Witness ==
    /\ last.op = "delete_user_vote"
    /\ last.status = 400
    /\ \E u \in Users : VotesBy(u) = {}
    /\ votes # {}
    /\ paperFlags # {}

\* ------------------------------------------ paper creation (CreateSpec)
\* C23: a creation that fails with a unique-constraint integrity error is
\* answered 400 with an error message naming the duplicated field (url or DOI,
\* both when the database gave no detail), raises nothing out of the handler
\* and deletes no ranking-cache entry.
C23_IntegrityErrorNamesField ==
    [][(last' # last /\ last'.op = "create" /\ last'.cause.kind = "IntegrityError") =>
         /\ last'.status = 400
         /\ ~last'.raised
         /\ rankCache' = rankCache
         /\ last'.error = IF ~last'.cause.has_detail THEN UrlOrDoiExists
                          ELSE IF last'.cause.column = "url" THEN UrlExists
                          ELSE DoiExists]_vars

\* ------------------------------------------ repeated votes (NormalSpec)
\* C25: an upvote (downvote) of a user who already has an UPVOTE (DOWNVOTE) on
\* the paper never gets past the vote_exists test: it is answered on arrival,
\* and a vote answered on arrival has status 400 and changed nothing: no Vote
\* record, no dispatched task, no ranking or paper-detail cache entry, no score.
C25_RepeatedVoteIsRejected ==
    [][/\ \A r \in Reqs :
             (Free(r) /\ req'[r].pc = "retrieve_vote") =>
                 ~find_vote(req'[r].user, req'[r].vote_type)
       /\ (AnsweredOnArrival /\ last'.op \in VoteOps) =>
             /\ last'.status = 400
             /\ ~last'.contributed /\ ~last'.created /\ ~last'.dropped
             /\ votes' = votes
             /\ jobs' = jobs
             /\ rankCache' = rankCache
             /\ paperCache' = paperCache
             /\ doc' = doc]_vars

\* A vote was rejected on a paper that has a vote.
C25_Witness ==
    /\ last.op \in VoteOps
    /\ last.status = 400
    /\ \E v \in votes : v.vote_type = (IF last.op = "upvote" THEN UPVOTE ELSE DOWNVOTE)

\* ------------------------------------------ moderation (AuditSpec)
\* The item of a flag is marked removed: a comment on itself, a document on its
\* unified document, a paper on itself as well.
MarkedRemoved(c, i) ==
    IF c[i].kind = "comment" THEN c[i].is_removed
    ELSE c[i].uni_removed /\ (c[i].kind = "paper" => c[i].is_removed)

ItemsOf(F, ids) == {f.item : f \in {g \in F : g.id \in ids}}
Range(s) == {s[k] : k \in DOMAIN s}

\* The step in which the moderation request of handler r is answered.
ModerationAnswered(r) == req[r].op \in AuditOps /\ ~Free(r) /\ Free(r)'

\* The flags the loop of handler r has gone through when it is answered 200.
Processed(r) == Range(req[r].done) \cup {Head(req[r].todo)}

\* C24: content is marked removed exactly when the verdict removes content: when
\* remove_flagged_content, or flag_and_remove with is_content_removed true, is
\* answered 200, the item of every flag it processed is marked removed; no step of
\* dismiss_flagged_content, or of flag_and_remove with is_content_removed false,
\* changes any item.
C24_RemovedIffVerdictRemoves ==
    [][\A r \in Reqs :
         /\ (ModerationAnswered(r) /\ last'.status = 200 /\ req[r].removes) =>
               \A i \in ItemsOf(auditFlags', Processed(r)) : MarkedRemoved(content', i)
         /\ (req[r].op \in AuditOps /\ ~req[r].removes) => content' = content]_vars

\* A removal of a flagged paper and a flagged comment was answered 200.
C24_Witness ==
    /\ last.op \in {"remove_flagged_content", "flag_and_remove"}
    /\ last.status = 200
    /\ last.removes
    /\ {f.item : f \in {g \in auditFlags : g.verdict = "removed"}} = {"paper", "comment"}
    /\ content["paper"].is_removed /\ content["paper"].uni_removed
    /\ content["comment"].is_removed
    /\ ~content["post"].uni_removed

\* C29: remove_flagged_content goes through the selected flags one at a time,
\* for each creating the verdict, then stamping the flag, then removing the
\* content; no step touches a flag or an item other than the current flag and
\* its item.  When a step raises the endpoint answers 500 with an empty body and
\* ends: the flags gone through before keep their verdict, their stamp and their
\* removed content, and the flags after the failing one are never reached.
C29_FailureKeepsEarlierFlags ==
    [][\A r \in Reqs : (req[r].op = "remove_flagged_content" /\ ~Free(r)) =>
         LET current == Head(req[r].todo) IN
         /\ \A f \in auditFlags : f.id # current => f \in auditFlags'
         /\ \A i \in ItemIds : i # FlagRow(current).item => content'[i] = content[i]
         /\ content' # content =>
               (FlagRow(current).verdict = "removed" /\ FlagRow(current).stamped)
         /\ (ModerationAnswered(r) /\ last'.status = 500) =>
               /\ last'.body = "empty"
               /\ \A id \in Range(req[r].done) :
                     /\ \E f \in auditFlags' :
                           f.id = id /\ f.verdict = "removed" /\ f.stamped
                     /\ \A i \in ItemsOf(auditFlags', {id}) : MarkedRemoved(content', i)
         /\ ~ModerationAnswered(r) =>
               /\ Range(req'[r].done) \cup Range(req'[r].todo)
                     = Range(req[r].done) \cup Range(req[r].todo)
               /\ req'[r].done \in {req[r].done, Append(req[r].done, current)}]_vars

\* remove_flagged_content failed after it had removed the content of one flag,
\* and another flag has no verdict and its item is not removed.
C29_Witness ==
    /\ last.op = "remove_flagged_content"
    /\ last.status = 500
    /\ \E f, g \in auditFlags :
          /\ f.verdict = "removed" /\ f.stamped /\ MarkedRemoved(content, f.item)
          /\ g.verdict = "none" /\ ~MarkedRemoved(content, g.item)

\* A retrieve of handler r is answered in this step.
RetrieveAnswered(r) == req[r].op = "retrieve" /\ ~Free(r) /\ Free(r)'

\* C28: a retrieve carrying make_public that is answered 200 leaves the paper
\* public, whether the detail cache entry was present or absent when the
\* request probed it.
C28_MakePublicAlwaysPublishes ==
    [][\A r \in Reqs :
         (RetrieveAnswered(r) /\ req[r].make_public /\ last'.status = 200) =>
            paper'.is_public]_vars

\* The same of the requests that found the entry absent.
C28_PublishedOnCacheMiss ==
    [][\A r \in Reqs :
         (RetrieveAnswered(r) /\ req[r].make_public /\ ~req[r].cache_hit
            /\ last'.status = 200) => paper'.is_public]_vars

\* A make_public retrieve that found the entry absent was answered and the
\* paper, not public before, is public.
C28_MissWitness ==
    /\ last.op = "retrieve" /\ last.make_public /\ ~last.cache_hit
    /\ last.status = 200 /\ last.saves = 1
    /\ paper.is_public

\* C26: update deletes the detail cache entry before it writes, and once an
\* update and a retrieve of the paper have both completed the entry is absent
\* or holds the hubs the update wrote.
C26_EntryAbsentOrFresh ==
    (Quiet /\ paperCache) => cached.hubs = paperHubs

\* update deletes the entry before it writes: while the write is pending the
\* only entry there can be is one a retrieve has stored since.
C26_DeleteBeforeWrite ==
    [][\A r \in Reqs :
         (Free(r) /\ req'[r].op = "update") => ~paperCache']_vars

\* The unified document is written by the receiver of handler r in this step.
SyncPcs == {"retrieve_sync", "remove_sync"}
SyncDone(r) == req[r].pc \in SyncPcs /\ req'[r].pc # req[r].pc

\* C27: when a save of the paper has run its receiver, the unified document's
\* is_removed equals the paper's, unless the receiver failed, which changes
\* nothing and lets the request go on; a paper without a unified document has
\* nothing written.
C27_UnifiedDocumentFollowsPaper ==
    [][\A r \in Reqs : SyncDone(r) =>
         /\ req'[r].pc # "idle" \/ last'.status = 200
         /\ IF paper.unified_document
            THEN \/ content'["paper"].uni_removed = content'["paper"].is_removed
                 \/ content' = content
            ELSE content' = content]_vars

\* A removal of the paper was answered 200 while nothing else was served.
C27_SerialWitness ==
    /\ last.op = "remove_flagged_content" /\ last.status = 200
    /\ content["paper"].is_removed /\ content["paper"].uni_removed

====
